---- MODULE Spec2Model ----
(***************************************************************************)
(* Biotech-Paper-Puller: the matching / scoring / aggregation logic of     *)
(* app/paper_lookup.py and the download-token cache of app/main.py.        *)
(*                                                                         *)
(* Text, a URL included, is a sequence of characters, each a string: an    *)
(* ASCII character is itself ("a", "\r"), a character that a TLA+ string   *)
(* cannot hold is the name of its code point ("U+000B", "U+212A").  A      *)
(* float is an IEEE 754 double, held as a sign and an exact magnitude in   *)
(* limbs of LimbBits bits, and every operation on it rounds as the         *)
(* hardware does; a Match's rounded score is an integer number of          *)
(* thousandths.  None, a JSON null included, is the empty sequence, a      *)
(* present value x is <<x>>.  A call that may raise gives [raised, value]. *)
(***************************************************************************)
EXTENDS Integers, Sequences, FiniteSets, Bags, TLC

\* ------------------------------------------------------------------ bounds
MaxTitleLen == 3
MaxAuthors == 2
MaxItems == 3
MaxUrls == 4

\* ------------------------------------------------------------ generic help
None == <<>>
Some(x) == <<x>>
IsSome(o) == o # <<>>

Returned(v) == [raised |-> FALSE, value |-> v]
Raised == [raised |-> TRUE, value |-> None]

RECURSIVE SeqsUpTo(_, _)
SeqsUpTo(S, n) ==
    IF n = 0 THEN {<<>>}
    ELSE LET shorter == SeqsUpTo(S, n - 1)
         IN  shorter \cup {Append(s, x) : s \in {t \in shorter : Len(t) = n - 1}, x \in S}

SetMax(S) == CHOOSE x \in S : \A y \in S : y <= x
SetMin(S) == CHOOSE x \in S : \A y \in S : x <= y
Range(seq) == {seq[i] : i \in 1..Len(seq)}

\* str.find from position `start` on, counted from 1; 0 when c does not occur
Find(s, c, start) ==
    IF \E i \in start..Len(s) : s[i] = c
    THEN SetMin({i \in start..Len(s) : s[i] = c})
    ELSE 0

\* ------------------------------------------------------------------- text
UpperToLower ==
    [c \in {"A", "B", "C", "D", "E", "F", "G", "H", "I", "J", "K", "L", "M",
            "N", "O", "P", "Q", "R", "S", "T", "U", "V", "W", "X", "Y", "Z"} |->
        CASE c = "A" -> "a" [] c = "B" -> "b" [] c = "C" -> "c" [] c = "D" -> "d"
          [] c = "E" -> "e" [] c = "F" -> "f" [] c = "G" -> "g" [] c = "H" -> "h"
          [] c = "I" -> "i" [] c = "J" -> "j" [] c = "K" -> "k" [] c = "L" -> "l"
          [] c = "M" -> "m" [] c = "N" -> "n" [] c = "O" -> "o" [] c = "P" -> "p"
          [] c = "Q" -> "q" [] c = "R" -> "r" [] c = "S" -> "s" [] c = "T" -> "t"
          [] c = "U" -> "u" [] c = "V" -> "v" [] c = "W" -> "w" [] c = "X" -> "x"
          [] c = "Y" -> "y" [] c = "Z" -> "z"]

LowerLetters ==
    {"a", "b", "c", "d", "e", "f", "g", "h", "i", "j", "k", "l", "m",
     "n", "o", "p", "q", "r", "s", "t", "u", "v", "w", "x", "y", "z"}
Digits == {"0", "1", "2", "3", "4", "5", "6", "7", "8", "9"}
LowerAlnum == LowerLetters \cup Digits

\* what \s and str.strip() take for whitespace: the ASCII ones, then the
\* separators U+001C-U+001F and the spaces of the other Unicode blocks
Whitespace ==
    {" ", "\t", "\n", "\r", "\f", "U+000B", "U+001C", "U+001D", "U+001E", "U+001F",
     "U+0085", "U+00A0", "U+1680", "U+2000", "U+2001", "U+2002", "U+2003", "U+2004",
     "U+2005", "U+2006", "U+2007", "U+2008", "U+2009", "U+200A", "U+2028", "U+2029",
     "U+202F", "U+205F", "U+3000"}

\* str.lower() on one character, a sequence since U+0130 lowers to two.  Of the
\* characters outside ASCII only U+212A and U+0130 lower to text with an ASCII
\* letter; any other lowers to characters outside ASCII and is left as it is.
LowerChar(c) ==
    IF c \in DOMAIN UpperToLower THEN <<UpperToLower[c]>>
    ELSE IF c = "U+212A" THEN <<"k">>
    ELSE IF c = "U+0130" THEN <<"i", "U+0307">>
    ELSE <<c>>

\* str.lower()
RECURSIVE Lower(_)
Lower(s) ==
    IF Find(s, "U+0130", 1) = 0 THEN [i \in 1..Len(s) |-> LowerChar(s[i])[1]]
    ELSE Lower(SubSeq(s, 1, Find(s, "U+0130", 1) - 1)) \o LowerChar("U+0130")
         \o Lower(SubSeq(s, Find(s, "U+0130", 1) + 1, Len(s)))

\* re.sub(r"[^a-z0-9\s]", " ", s): a character that is neither a lower-case
\* letter, a digit nor whitespace becomes one space; whitespace stays as it is
ReplaceNonAlnum(s) ==
    [i \in 1..Len(s) |-> IF s[i] \in LowerAlnum \cup Whitespace THEN s[i] ELSE " "]

\* the positions where a run of whitespace, or a character outside one, starts
RunStarts(s) ==
    SelectSeq([i \in 1..Len(s) |-> i],
              LAMBDA i : s[i] \notin Whitespace \/ i = 1 \/ s[i - 1] \notin Whitespace)

\* the characters at `starts`, a whitespace one as a space
CollapseAt(s, starts) ==
    [k \in 1..Len(starts) |-> IF s[starts[k]] \in Whitespace THEN " " ELSE s[starts[k]]]

\* re.sub(r"\s+", " ", s): each run of whitespace becomes one space
CollapseWhitespace(s) == CollapseAt(s, RunStarts(s))

\* the positions of the characters that are not whitespace
Solid(s) == {i \in 1..Len(s) : s[i] \notin Whitespace}

\* str.lstrip(), str.rstrip() and str.strip()
LStrip(s) == IF Solid(s) = {} THEN <<>> ELSE SubSeq(s, SetMin(Solid(s)), Len(s))
RStrip(s) == IF Solid(s) = {} THEN <<>> ELSE SubSeq(s, 1, SetMax(Solid(s)))
Strip(s) == RStrip(LStrip(s))

normalize_text(value) == Strip(CollapseWhitespace(ReplaceNonAlnum(Lower(value))))

\* str.replace(" ", "")
RemoveSpaces(s) == SelectSeq(s, LAMBDA c : c # " ")

normalize_last_name(value) == RemoveSpaces(normalize_text(value))

\* str.split(" ")[0]
FirstSpaceField(s) ==
    IF Find(s, " ", 1) = 0 THEN s ELSE SubSeq(s, 1, Find(s, " ", 1) - 1)

\* ----------------------------------------------------------------- floats
\* The magnitude of a double: NumLimbs limbs of LimbBits bits, most significant
\* first, the first one the integer part and the others the fraction.  Every
\* double from 2^-22 up to 2^LimbBits is such a number exactly.
LimbBits == 15
FracLimbs == 5
Precision == 53
Base == 2^LimbBits
NumLimbs == FracLimbs + 1
NumBits == NumLimbs * LimbBits
ZeroLimbs == [i \in 1..NumLimbs |-> 0]

RECURSIVE AddFrom(_, _, _, _)
AddFrom(x, y, i, carry) ==
    IF i = 0 THEN <<>>
    ELSE Append(AddFrom(x, y, i - 1, (x[i] + y[i] + carry) \div Base),
                (x[i] + y[i] + carry) % Base)
AddLimbs(x, y) == AddFrom(x, y, NumLimbs, 0)

\* x - y for x >= y
RECURSIVE SubFrom(_, _, _, _)
SubFrom(x, y, i, borrow) ==
    IF i = 0 THEN <<>>
    ELSE Append(SubFrom(x, y, i - 1, IF x[i] - y[i] - borrow < 0 THEN 1 ELSE 0),
                (x[i] - y[i] - borrow + Base) % Base)
SubLimbs(x, y) == SubFrom(x, y, NumLimbs, 0)

\* x * n for a small natural n
RECURSIVE TimesFrom(_, _, _, _)
TimesFrom(x, n, i, carry) ==
    IF i = 0 THEN <<>>
    ELSE Append(TimesFrom(x, n, i - 1, (x[i] * n + carry) \div Base),
                (x[i] * n + carry) % Base)

\* the next k fraction limbs of r / q (r < q <= 2 * Base) after `limbs`, and
\* what is left of r
RECURSIVE DivideFrom(_, _, _, _)
DivideFrom(r, q, k, limbs) ==
    IF k = 0 THEN <<limbs, r>>
    ELSE DivideFrom((r * Base) % q, q, k - 1, Append(limbs, (r * Base) \div q))

LessLimbs(x, y) == \E i \in 1..NumLimbs : x[i] < y[i] /\ \A j \in 1..(i - 1) : x[j] = y[j]

\* bit i of the magnitude, bit 1 the most significant
BitAt(x, i) ==
    (x[(i - 1) \div LimbBits + 1] \div 2^(LimbBits - 1 - ((i - 1) % LimbBits))) % 2

\* some bit at position i or after it is set
AnyBitFrom(x, i) ==
    \/ x[(i - 1) \div LimbBits + 1] % 2^(LimbBits - ((i - 1) % LimbBits)) # 0
    \/ \E j \in ((i - 1) \div LimbBits + 2)..NumLimbs : x[j] # 0

\* the position of the first set bit of x # 0
LeadingBit(x) ==
    LET limb == CHOOSE j \in 1..NumLimbs : x[j] # 0 /\ \A i \in 1..(j - 1) : x[i] = 0
        high == CHOOSE k \in 0..(LimbBits - 1) : 2^k <= x[limb] /\ x[limb] < 2^(k + 1)
    IN  (limb - 1) * LimbBits + LimbBits - high

\* round to nearest, ties to even, at Precision significant bits; `sticky`
\* says that the exact value has more set bits after the last limb
Round53(x, sticky) ==
    IF x = ZeroLimbs THEN x
    ELSE LET last == LeadingBit(x) + Precision - 1
             limb == (last - 1) \div LimbBits + 1
             unit == 2^(LimbBits - 1 - ((last - 1) % LimbBits))
             kept == [j \in 1..NumLimbs |->
                         IF j < limb THEN x[j]
                         ELSE IF j = limb THEN x[j] - (x[j] % unit) ELSE 0]
             more == sticky \/ (last + 2 <= NumBits /\ AnyBitFrom(x, last + 2))
         IN  IF last >= NumBits THEN x
             ELSE IF BitAt(x, last + 1) = 1 /\ (more \/ BitAt(x, last) = 1)
                  THEN AddLimbs(kept, [j \in 1..NumLimbs |-> IF j = limb THEN unit ELSE 0])
                  ELSE kept

\* the double nearest to p / q: the float p / q of two integers, and the
\* literal whose decimal is p / q
Float(p, q) ==
    [neg |-> FALSE,
     mag |-> Round53(DivideFrom(p % q, q, FracLimbs, <<p \div q>>)[1],
                     DivideFrom(p % q, q, FracLimbs, <<p \div q>>)[2] # 0)]

FloatZero == [neg |-> FALSE, mag |-> ZeroLimbs]
FloatNeg(x) == [neg |-> ~x.neg, mag |-> x.mag]

\* x + y
FloatAdd(x, y) ==
    IF x.neg = y.neg THEN [neg |-> x.neg, mag |-> Round53(AddLimbs(x.mag, y.mag), FALSE)]
    ELSE IF x.mag = y.mag THEN FloatZero
    ELSE IF LessLimbs(x.mag, y.mag)
         THEN [neg |-> y.neg, mag |-> Round53(SubLimbs(y.mag, x.mag), FALSE)]
         ELSE [neg |-> x.neg, mag |-> Round53(SubLimbs(x.mag, y.mag), FALSE)]

\* x - y
FloatSub(x, y) == FloatAdd(x, FloatNeg(y))

\* x < y
FloatLess(x, y) ==
    IF x.mag = ZeroLimbs /\ y.mag = ZeroLimbs THEN FALSE
    ELSE IF x.neg # y.neg THEN x.neg
    ELSE IF x.neg THEN LessLimbs(y.mag, x.mag) ELSE LessLimbs(x.mag, y.mag)

\* ------------------------------------------------------------- similarity
\* SequenceMatcher.__chain_b with autojunk, the default: in a b of 200 or more
\* characters, those that occur more than len(b) // 100 + 1 times are popular
\* and are left out of the index b2j
Popular(b) ==
    IF Len(b) >= 200
    THEN {c \in Range(b) : Cardinality({j \in 1..Len(b) : b[j] = c}) > Len(b) \div 100 + 1}
    ELSE {}

\* the blocks find_longest_match sees through b2j: all (i, j, k) with
\* a[i..i+k-1] = b[j..j+k-1] and no popular character in it
CommonBlocks(a, b, popular) ==
    UNION {{<<p[1], p[2], k>> :
                k \in {n \in 1..(IF Len(a) - p[1] < Len(b) - p[2]
                                 THEN Len(a) - p[1] + 1 ELSE Len(b) - p[2] + 1) :
                          \A d \in 0..(n - 1) :
                             a[p[1] + d] = b[p[2] + d] /\ b[p[2] + d] \notin popular}} :
           p \in {q \in (1..Len(a)) \X (1..Len(b)) :
                     a[q[1]] = b[q[2]] /\ b[q[2]] \notin popular}}

\* the longest of them, then the earliest in a, then in b; (1, 1, 0) without one
BestBlock(blocks) ==
    IF blocks = {} THEN <<1, 1, 0>>
    ELSE LET kmax == SetMax({t[3] : t \in blocks})
             imin == SetMin({t[1] : t \in {u \in blocks : u[3] = kmax}})
             jmin == SetMin({t[2] : t \in {u \in blocks : u[3] = kmax /\ u[1] = imin}})
         IN  <<imin, jmin, kmax>>

\* the block grown to the left and then to the right over equal characters,
\* popular ones included (no character is junk)
ExtendLeft(a, b, m) ==
    LET n == SetMax({n \in 0..(IF m[1] < m[2] THEN m[1] - 1 ELSE m[2] - 1) :
                        \A d \in 1..n : a[m[1] - d] = b[m[2] - d]})
    IN  <<m[1] - n, m[2] - n, m[3] + n>>

ExtendRight(a, b, m) ==
    LET room == IF Len(a) - m[1] < Len(b) - m[2]
                THEN Len(a) - m[1] + 1 - m[3] ELSE Len(b) - m[2] + 1 - m[3]
        n    == SetMax({n \in 0..room :
                          \A d \in 0..(n - 1) : a[m[1] + m[3] + d] = b[m[2] + m[3] + d]})
    IN  <<m[1], m[2], m[3] + n>>

\* difflib.SequenceMatcher.find_longest_match on the whole of a and b
LongestMatch(a, b, popular) ==
    ExtendRight(a, b, ExtendLeft(a, b, BestBlock(CommonBlocks(a, b, popular))))

\* difflib.SequenceMatcher.get_matching_blocks: total size of the blocks,
\* found by recursing left and right of the longest match m
RECURSIVE MatchedAround(_, _, _, _)
MatchedAround(a, b, popular, m) ==
    IF m[3] = 0 THEN 0
    ELSE m[3]
         + MatchedAround(SubSeq(a, 1, m[1] - 1), SubSeq(b, 1, m[2] - 1), popular,
                         LongestMatch(SubSeq(a, 1, m[1] - 1), SubSeq(b, 1, m[2] - 1), popular))
         + MatchedAround(SubSeq(a, m[1] + m[3], Len(a)), SubSeq(b, m[2] + m[3], Len(b)),
                         popular,
                         LongestMatch(SubSeq(a, m[1] + m[3], Len(a)),
                                      SubSeq(b, m[2] + m[3], Len(b)), popular))

MatchedChars(a, b, popular) == MatchedAround(a, b, popular, LongestMatch(a, b, popular))

\* difflib.SequenceMatcher(None, a, b).ratio(): 2.0 * M / T, and 1.0 when T = 0
Ratio(a, b) ==
    IF Len(a) + Len(b) = 0 THEN Float(1, 1)
    ELSE Float(2 * MatchedChars(a, b, Popular(b)), Len(a) + Len(b))

title_similarity(left, right) ==
    IF left = <<>> \/ right = <<>> THEN FloatZero
    ELSE Ratio(normalize_text(left), normalize_text(right))

\* --------------------------------------------------------------------- URLs
Http == <<"h", "t", "t", "p">>
Https == <<"h", "t", "t", "p", "s">>
DotPdf == <<".", "p", "d", "f">>

\* the empty string
EmptyUrl == <<>>

\* str.endswith
EndsWith(s, suffix) ==
    Len(s) >= Len(suffix) /\ SubSeq(s, Len(s) - Len(suffix) + 1, Len(s)) = suffix

\* urllib.parse: the schemes that take ;parameters, and those that take a netloc
uses_params ==
    {<<>>, <<"f", "t", "p">>, <<"h", "d", "l">>, <<"p", "r", "o", "s", "p", "e", "r", "o">>,
     <<"h", "t", "t", "p">>, <<"i", "m", "a", "p">>, <<"h", "t", "t", "p", "s">>,
     <<"s", "h", "t", "t", "p">>, <<"r", "t", "s", "p">>, <<"r", "t", "s", "p", "s">>,
     <<"r", "t", "s", "p", "u">>, <<"s", "i", "p">>, <<"s", "i", "p", "s">>, <<"m", "m", "s">>,
     <<"s", "f", "t", "p">>, <<"t", "e", "l">>}

uses_netloc ==
    {<<>>, <<"f", "t", "p">>, <<"h", "t", "t", "p">>, <<"g", "o", "p", "h", "e", "r">>,
     <<"n", "n", "t", "p">>, <<"t", "e", "l", "n", "e", "t">>, <<"i", "m", "a", "p">>,
     <<"w", "a", "i", "s">>, <<"f", "i", "l", "e">>, <<"m", "m", "s">>,
     <<"h", "t", "t", "p", "s">>, <<"s", "h", "t", "t", "p">>, <<"s", "n", "e", "w", "s">>,
     <<"p", "r", "o", "s", "p", "e", "r", "o">>, <<"r", "t", "s", "p">>,
     <<"r", "t", "s", "p", "s">>, <<"r", "t", "s", "p", "u">>, <<"r", "s", "y", "n", "c">>,
     <<"s", "v", "n">>, <<"s", "v", "n", "+", "s", "s", "h">>, <<"s", "f", "t", "p">>,
     <<"n", "f", "s">>, <<"g", "i", "t">>, <<"g", "i", "t", "+", "s", "s", "h">>, <<"w", "s">>,
     <<"w", "s", "s">>}

\* the characters urlsplit removes anywhere in a URL, and those of a scheme
UnsafeUrlChars == {"\t", "\r", "\n"}
\* the characters urlsplit strips from the front of a URL: U+0000 to U+0020
C0ControlOrSpace ==
    {"U+0000", "U+0001", "U+0002", "U+0003", "U+0004", "U+0005", "U+0006", "U+0007",
     "U+0008", "\t", "\n", "U+000B", "\f", "\r", "U+000E", "U+000F", "U+0010", "U+0011",
     "U+0012", "U+0013", "U+0014", "U+0015", "U+0016", "U+0017", "U+0018", "U+0019",
     "U+001A", "U+001B", "U+001C", "U+001D", "U+001E", "U+001F", " "}
SchemeChars == LowerLetters \cup DOMAIN UpperToLower \cup Digits \cup {"+", "-", "."}

\* s.split(c, 1), (s, "") when c is not in s
SplitAt(s, c) ==
    IF Find(s, c, 1) = 0 THEN <<s, <<>>>>
    ELSE <<SubSeq(s, 1, Find(s, c, 1) - 1), SubSeq(s, Find(s, c, 1) + 1, Len(s))>>

\* urlsplit: the lower-cased scheme, when the text before the first ":" is one
SplitScheme(url) ==
    IF /\ Find(url, ":", 1) > 1
       /\ url[1] \in LowerLetters \cup DOMAIN UpperToLower
       /\ \A k \in 1..(Find(url, ":", 1) - 1) : url[k] \in SchemeChars
    THEN <<Lower(SubSeq(url, 1, Find(url, ":", 1) - 1)),
           SubSeq(url, Find(url, ":", 1) + 1, Len(url))>>
    ELSE <<<<>>, url>>

\* urlsplit and _splitnetloc: after "//" the netloc runs to the first of / ? #
SplitNetloc(url) ==
    IF Len(url) >= 2 /\ url[1] = "/" /\ url[2] = "/"
    THEN LET stops == {i \in 3..Len(url) : url[i] \in {"/", "?", "#"}}
             delim == IF stops = {} THEN Len(url) + 1 ELSE SetMin(stops)
         IN  <<SubSeq(url, 3, delim - 1), SubSeq(url, delim, Len(url))>>
    ELSE <<<<>>, url>>

\* _splitparams: the parameters follow the first ";" of the last path segment
_splitparams(url) ==
    LET slashes == {i \in 1..Len(url) : url[i] = "/"}
        i       == Find(url, ";", IF slashes = {} THEN 1 ELSE SetMax(slashes))
    IN  IF i = 0 THEN <<url, <<>>>>
        ELSE <<SubSeq(url, 1, i - 1), SubSeq(url, i + 1, Len(url))>>

\* s.split(c)
Split(s, c) ==
    LET at == SelectSeq([i \in 1..Len(s) |-> i], LAMBDA i : s[i] = c)
        cuts == <<0>> \o at \o <<Len(s) + 1>>
    IN  [k \in 1..(Len(at) + 1) |-> SubSeq(s, cuts[k] + 1, cuts[k + 1] - 1)]

HexDigits == Digits \cup {"a", "b", "c", "d", "e", "f", "A", "B", "C", "D", "E", "F"}

\* ipaddress: _parse_hextet accepts one to four hex digits
IsHextet(part) == Len(part) \in 1..4 /\ \A i \in 1..Len(part) : part[i] \in HexDigits

\* the value of a string of at most three decimal digits
Decimal(octet) ==
    LET digit(c) == CHOOSE d \in 0..9 : <<"0", "1", "2", "3", "4", "5", "6", "7", "8", "9">>[d + 1] = c
    IN  IF Len(octet) = 1 THEN digit(octet[1])
        ELSE IF Len(octet) = 2 THEN 10 * digit(octet[1]) + digit(octet[2])
        ELSE 100 * digit(octet[1]) + 10 * digit(octet[2]) + digit(octet[3])

\* ipaddress: _parse_octet accepts a decimal of one to three digits, without a
\* leading zero, up to 255
IsOctet(octet) ==
    /\ Len(octet) \in 1..3 /\ \A i \in 1..Len(octet) : octet[i] \in Digits
    /\ (octet = <<"0">> \/ octet[1] # "0")
    /\ Decimal(octet) <= 255

\* ipaddress: IPv4Address accepts four octets
IsIPv4(text) == Len(Split(text, ".")) = 4 /\ \A k \in 1..4 : IsOctet(Split(text, ".")[k])

\* ipaddress: _ip_int_from_string of IPv6 on the parts between the colons, a
\* dotted last part already replaced: at most one "::", eight parts without it
IsHextets(parts) ==
    LET n == Len(parts)
        skips == {i \in 2..(n - 1) : parts[i] = <<>>}
        skip == CHOOSE i \in skips : TRUE
        parts_hi == IF parts[1] = <<>> THEN skip - 2 ELSE skip - 1
        parts_lo == IF parts[n] = <<>> THEN n - skip - 1 ELSE n - skip
    IN  /\ n <= 9 /\ Cardinality(skips) <= 1
        /\ IF skips = {}
           THEN n = 8 /\ \A i \in 1..n : IsHextet(parts[i])
           ELSE /\ parts[1] = <<>> => parts_hi = 0
                /\ parts[n] = <<>> => parts_lo = 0
                /\ 8 - (parts_hi + parts_lo) >= 1
                /\ \A i \in 1..parts_hi : IsHextet(parts[i])
                /\ \A i \in (n - parts_lo + 1)..n : IsHextet(parts[i])

\* ipaddress: IPv6Address accepts the text: an address with at least two
\* colons, its last part possibly a dotted IPv4 address, and after "%" a scope
IsIPv6(text) ==
    LET scoped == Split(text, "%")
        parts == Split(scoped[1], ":")
        last == parts[Len(parts)]
    IN  /\ Len(scoped) <= 2 /\ (Len(scoped) = 2 => scoped[2] # <<>>)
        /\ Len(parts) >= 3
        /\ IF "." \in Range(last)
           THEN IsIPv4(last)
                /\ IsHextets(SubSeq(parts, 1, Len(parts) - 1) \o <<<<"0">>, <<"0">>>>)
           ELSE IsHextets(parts)

\* re.match(r"\Av[a-fA-F0-9]+\..+\Z", hostname)
IsIPvFuture(hostname) ==
    \E k \in 3..(Len(hostname) - 1) :
        /\ hostname[1] = "v" /\ hostname[k] = "."
        /\ \A i \in 2..(k - 1) : hostname[i] \in HexDigits

\* netloc.partition("[")[2].partition("]")[0]
BracketedHost(netloc) == SplitAt(SplitAt(netloc, "[")[2], "]")[1]

\* _check_bracketed_host accepts the text between the brackets
ValidBracketedHost(hostname) ==
    IF hostname # <<>> /\ hostname[1] = "v" THEN IsIPvFuture(hostname)
    ELSE IsIPv6(hostname)

\* the characters whose NFKC form holds one of / ? # @ :
NfkcDelimiters ==
    {"U+2047", "U+2048", "U+2049", "U+2100", "U+2101", "U+2105", "U+2106", "U+2A74",
     "U+FE13", "U+FE16", "U+FE55", "U+FE56", "U+FE5F", "U+FE6B", "U+FF03", "U+FF0F",
     "U+FF1A", "U+FF1F", "U+FF20"}

\* urlsplit raises ValueError on a netloc with one bracket only, with brackets
\* around something that is neither an IPv6 nor an IPvFuture address, or (in
\* _checknetloc) with a character that NFKC turns into a delimiter
BadNetloc(netloc) ==
    \/ ("[" \in Range(netloc)) # ("]" \in Range(netloc))
    \/ "[" \in Range(netloc) /\ ~ValidBracketedHost(BracketedHost(netloc))
    \/ Range(netloc) \cap NfkcDelimiters # {}

\* the six parts, s being (scheme, rest), n (netloc, rest), f (rest, fragment)
\* and q (path, query)
ParseResult(s, n, f, q) ==
    IF BadNetloc(n[1]) THEN Raised
    ELSE Returned(
        IF s[1] \in uses_params /\ ";" \in Range(q[1])
        THEN [scheme |-> s[1], netloc |-> n[1], path |-> _splitparams(q[1])[1],
              params |-> _splitparams(q[1])[2], query |-> q[2], fragment |-> f[2]]
        ELSE [scheme |-> s[1], netloc |-> n[1], path |-> q[1],
              params |-> <<>>, query |-> q[2], fragment |-> f[2]])

ParseFragment(s, n, f) == ParseResult(s, n, f, SplitAt(f[1], "?"))
ParseNetloc(s, n) == ParseFragment(s, n, SplitAt(n[2], "#"))
ParseScheme(s) == ParseNetloc(s, SplitNetloc(s[2]))

\* url.lstrip(_WHATWG_C0_CONTROL_OR_SPACE)
LStripC0(url) ==
    IF \A i \in 1..Len(url) : url[i] \in C0ControlOrSpace THEN <<>>
    ELSE SubSeq(url, SetMin({i \in 1..Len(url) : url[i] \notin C0ControlOrSpace}), Len(url))

\* urllib.parse.urlparse: leading control characters and spaces are stripped,
\* tab, CR and LF removed throughout, then scheme, netloc, fragment, query and
\* parameters are split off in this order
urlparse(url) ==
    ParseScheme(SplitScheme(SelectSeq(LStripC0(url), LAMBDA c : c \notin UnsafeUrlChars)))

\* urlunsplit
urlunsplit(scheme, netloc, url, query, fragment) ==
    (IF scheme # <<>> THEN scheme \o <<":">> ELSE <<>>)
    \o (IF netloc # <<>>
           \/ (scheme # <<>> /\ scheme \in uses_netloc
              /\ ~(Len(url) >= 2 /\ url[1] = "/" /\ url[2] = "/"))
        THEN <<"/", "/">> \o netloc
             \o (IF url # <<>> /\ url[1] # "/" THEN <<"/">> ELSE <<>>) \o url
        ELSE url)
    \o (IF query # <<>> THEN <<"?">> \o query ELSE <<>>)
    \o (IF fragment # <<>> THEN <<"#">> \o fragment ELSE <<>>)

\* ParseResult.geturl(), that is urlunparse: empty parameters, an empty query
\* and an empty fragment lose their delimiter
geturl(parsed) ==
    urlunsplit(parsed.scheme, parsed.netloc,
               IF parsed.params # <<>> THEN parsed.path \o <<";">> \o parsed.params
               ELSE parsed.path,
               parsed.query, parsed.fragment)

\* the test of dedupe_urls line 160 (TRUE: the URL is kept)
HttpWithHost(parsed) == parsed.scheme \in {Http, Https} /\ parsed.netloc # <<>>

\* the loop of dedupe_urls from `urls` on, `parsed` being urlparse of its first
RECURSIVE DedupeFrom(_, _, _)
DedupeOne(urls, deduped, seen, parsed) ==
    IF parsed.raised THEN Raised
    ELSE IF ~HttpWithHost(parsed.value) THEN DedupeFrom(Tail(urls), deduped, seen)
    ELSE IF geturl(parsed.value) \notin seen
    THEN DedupeFrom(Tail(urls), Append(deduped, geturl(parsed.value)),
                    seen \cup {geturl(parsed.value)})
    ELSE DedupeFrom(Tail(urls), deduped, seen)

DedupeFrom(urls, deduped, seen) ==
    IF urls = <<>> THEN Returned(deduped)
    ELSE DedupeOne(urls, deduped, seen, urlparse(Head(urls)))

\* dedupe_urls: the list, or the ValueError of urlparse
dedupe_urls(urls) == DedupeFrom(urls, <<>>, {})

\* ---------------------------------------------------------- source records
\* "pdf" in content_type.lower()
ContainsPdf(ct) ==
    \E i \in 1..(Len(ct) - 2) : SubSeq(Lower(ct), i, i + 2) = <<"p", "d", "f">>

\* a Crossref link entry: [URL, content_type]
extract_crossref_pdf_links(item) ==
    dedupe_urls([i \in 1..Len(SelectSeq(item.link,
                                        LAMBDA l : l.URL # EmptyUrl /\ ContainsPdf(l.content_type))) |->
                    SelectSeq(item.link,
                              LAMBDA l : l.URL # EmptyUrl /\ ContainsPdf(l.content_type))[i].URL])

EuropePmcArticles ==
    <<"h", "t", "t", "p", "s", ":", "/", "/", "e", "u", "r", "o", "p", "e", "p", "m", "c",
      ".", "o", "r", "g", "/", "a", "r", "t", "i", "c", "l", "e", "s", "/">>
PdfRender == <<"?", "p", "d", "f", "=", "r", "e", "n", "d", "e", "r">>

\* a Europe PMC fullTextUrl entry: [url, documentStyle]
IsPdfEntry(e) ==
    /\ e.url # EmptyUrl
    /\ \/ Lower(e.documentStyle) = <<"p", "d", "f">>
       \/ EndsWith(Lower(e.url), DotPdf)

extract_europe_pmc_pdf_url(result) ==
    IF SelectSeq(result.fullTextUrl, IsPdfEntry) # <<>>
    THEN Some(SelectSeq(result.fullTextUrl, IsPdfEntry)[1].url)
    ELSE IF Strip(result.pmcid) # <<>>
         THEN Some(EuropePmcArticles \o Strip(result.pmcid) \o PdfRender)
         ELSE None

\* ---------------------------------------------------------------- scoring
Bonus30 == Float(30, 100)
Bonus10 == Float(10, 100)
Penalty05 == Float(5, 100)
Threshold45 == Float(45, 100)

\* an author entry of a Crossref item: Some(family name), or None
Author(family) == Some(family)

\* (author or {}).get("family", "")
Family(author) == IF author = None THEN <<>> ELSE author[1]

\* str(value) of a text or None
Str(value) == IF value = None THEN <<"N", "o", "n", "e">> ELSE value[1]

\* the scorer with the penalty on a present list without a matching surname
_score_crossref_item_mismatch_penalty(item, requested_title, requested_first_author_last_name) ==
    LET candidate_title == IF item.title # <<>> THEN item.title[1] ELSE <<>>
        score == title_similarity(candidate_title, requested_title)
        target_last_name == normalize_last_name(requested_first_author_last_name)
        authors == item.author
    IN  IF target_last_name = <<>> \/ authors = <<>> THEN score
        ELSE IF normalize_last_name(Family(authors[1])) = target_last_name
        THEN FloatAdd(score, Bonus30)
        ELSE IF \E k \in 1..Len(authors) : normalize_last_name(Family(authors[k])) = target_last_name
             THEN FloatAdd(score, Bonus10)
             ELSE FloatSub(score, Penalty05)

\* a Crossref item: [title: list of titles, author: list of author entries, DOI, link]
_score_crossref_item(item, requested_title, requested_first_author_last_name) ==
    LET candidate_title == IF item.title # <<>> THEN item.title[1] ELSE <<>>
        score == title_similarity(candidate_title, requested_title)
        target_last_name == normalize_last_name(requested_first_author_last_name)
        authors == item.author
    IN  IF target_last_name = <<>> THEN score
        ELSE IF authors = <<>> THEN FloatSub(score, Penalty05)
        ELSE LET first_author_last_name == normalize_last_name(Family(authors[1]))
             IN  IF first_author_last_name # <<>> /\ first_author_last_name = target_last_name
                 THEN FloatAdd(score, Bonus30)
                 ELSE IF \E k \in 1..Len(authors) :
                            normalize_last_name(Family(authors[k])) = target_last_name
                      THEN FloatAdd(score, Bonus10)
                      ELSE score

\* a Europe PMC result: [title, firstAuthor, doi, fullTextUrl, pmcid]
_score_europe_pmc_result(result, requested_title, requested_first_author_last_name) ==
    LET score == title_similarity(result.title, requested_title)
        target_last_name == normalize_last_name(requested_first_author_last_name)
        first_author_raw == Strip(Str(result.firstAuthor))
        first_author == normalize_last_name(FirstSpaceField(first_author_raw))
    IN  IF target_last_name = <<>> THEN score
        ELSE IF first_author # <<>> /\ first_author = target_last_name
             THEN FloatAdd(score, Bonus30)
             ELSE score

\* score * 1000 exactly, for a score below 2^LimbBits / 1000
TimesThousand(score) == TimesFrom(score.mag, 1000, NumLimbs, 0)

\* the whole number nearest to the magnitude, a tie going to the even one
NearestEven(scaled) ==
    IF BitAt(scaled, LimbBits + 1) = 1
       /\ (AnyBitFrom(scaled, LimbBits + 2) \/ scaled[1] % 2 = 1)
    THEN scaled[1] + 1
    ELSE scaled[1]

\* round(score, 3), in thousandths: the multiple of 0.001 nearest to the double
Round3(score) ==
    IF score.neg THEN 0 - NearestEven(TimesThousand(score))
    ELSE NearestEven(TimesThousand(score))

\* A Match keeps the fields the orchestration reads.  Both kinds carry pdf_links
\* and pdf_url; the key a kind does not have is the value .get() gives for it.
CrossrefMatch(item, score, links) ==
    IF None \in Range(item.author) \/ links.raised THEN Raised
    ELSE Returned([source |-> "crossref",
                   title |-> IF item.title # <<>> THEN item.title[1] ELSE <<>>,
                   doi |-> item.DOI,
                   score |-> Round3(score),
                   pdf_links |-> links.value,
                   pdf_url |-> None])

\* the Match, or the AttributeError of _format_crossref_authors on a null author
\* entry, or the ValueError of extract_crossref_pdf_links
_build_crossref_match(item, score) ==
    CrossrefMatch(item, score, extract_crossref_pdf_links(item))

_build_europe_pmc_match(result, score) ==
    [source |-> "europe_pmc",
     title |-> result.title,
     doi |-> result.doi,
     score |-> Round3(score),
     pdf_links |-> <<>>,
     pdf_url |-> extract_europe_pmc_pdf_url(result)]

\* -------------------------------------------------------------- selection
\* the loop body with >= : a later record with an equal score replaces the earlier
PickLoopBodyLastWins(item, score, best, best_score_now) ==
    IF ~FloatLess(score, best_score_now) THEN <<Some(item), score>>
    ELSE <<best, best_score_now>>

\* one iteration of the loop of pick_best_crossref_item / pick_best_europe_pmc_result:
\* the (best, best_score) pair after `item` scored `score`
PickLoopBody(item, score, best, best_score_now) ==
    IF FloatLess(best_score_now, score) THEN <<Some(item), score>>
    ELSE <<best, best_score_now>>

\* best_score = -1.0
MinusOne == FloatNeg(Float(1, 1))

\* the return of pick_best_*: (None, 0.0) below the threshold
PickReturnValue(best, best_score_now) ==
    IF FloatLess(best_score_now, Threshold45) THEN <<None, FloatZero>>
    ELSE <<best, best_score_now>>

\* the Match some(m) of an adapter that built m
SomeMatch(built) == IF built.raised THEN Raised ELSE Returned(Some(built.value))

\* lines 217-219 and 239-241: `if not best_item: return None`, else the Match
FetchReturnValue(src, picked) ==
    IF ~IsSome(picked[1]) THEN Returned(None)
    ELSE IF src = "crossref"
         THEN SomeMatch(_build_crossref_match(picked[1][1], picked[2]))
         ELSE Returned(Some(_build_europe_pmc_match(picked[1][1], picked[2])))

ScoreOf(src, item, title, name) ==
    IF src = "crossref" THEN _score_crossref_item(item, title, name)
    ELSE _score_europe_pmc_result(item, title, name)

\* pick_best_crossref_item / pick_best_europe_pmc_result as a whole: the loop
\* folded over the records, then the threshold
RECURSIVE PickFold(_, _, _, _, _, _)
PickFold(src, records, title, name, best, best_score_now) ==
    IF records = <<>> THEN <<best, best_score_now>>
    ELSE LET next == PickLoopBody(Head(records), ScoreOf(src, Head(records), title, name),
                                  best, best_score_now)
         IN  PickFold(src, Tail(records), title, name, next[1], next[2])

PickReturnPair(folded) == PickReturnValue(folded[1], folded[2])

pick_best(src, records, title, name) ==
    PickReturnPair(PickFold(src, records, title, name, None, MinusOne))

\* ---------------------------------------------------------- upstream calls
\* What one GET did: "ok" (2xx and a JSON body), "not_found" (404),
\* "status" (another non-2xx status), "transport" (timeout, connection error),
\* "bad_json" (2xx with a body that is not JSON: response.json() raises ValueError).
\* httpx.HTTPError covers "transport" and, through raise_for_status, the statuses.
Absorbed == {"transport", "status", "not_found"}

\* fetch_crossref_match / fetch_europe_pmc_match from the answer `resp`
\* ([kind, records]) of the single GET they issue on
fetch_match(src, resp, title, name) ==
    IF resp.kind \in Absorbed THEN Returned(None)
    ELSE IF resp.kind = "bad_json" THEN Raised
    ELSE FetchReturnValue(src, pick_best(src, resp.records, title, name))

fetch_crossref_match(resp, title, name) == fetch_match("crossref", resp, title, name)
fetch_europe_pmc_match(resp, title, name) == fetch_match("europe_pmc", resp, title, name)

\* location.get("url_for_pdf") or location.get("url")
LocationUrl(loc) == IF loc.url_for_pdf # EmptyUrl THEN loc.url_for_pdf ELSE loc.url

\* fetch_unpaywall_pdf_url after the guard of line 247, from the answer `resp`
\* ([kind, best_oa_location, oa_locations]) of its GET on
fetch_unpaywall_pdf_url(resp) ==
    IF resp.kind \in Absorbed THEN Returned(None)
    ELSE IF resp.kind = "bad_json" THEN Raised
    ELSE LET direct == LocationUrl(resp.best_oa_location)
             found  == SelectSeq(resp.oa_locations, LAMBDA loc : LocationUrl(loc) # EmptyUrl)
         IN  IF direct # EmptyUrl THEN Returned(Some(direct))
             ELSE IF found # <<>> THEN Returned(Some(LocationUrl(found[1])))
             ELSE Returned(None)

\* ------------------------------------------------------------ orchestration
\* arbitration with >= : a tie goes to Europe PMC
_pick_primary_match_ge(crossref_match, europe_pmc_match) ==
    IF IsSome(crossref_match) /\ IsSome(europe_pmc_match)
    THEN IF europe_pmc_match[1].score >= crossref_match[1].score
         THEN europe_pmc_match
         ELSE crossref_match
    ELSE IF IsSome(crossref_match) THEN crossref_match ELSE europe_pmc_match

_pick_primary_match(crossref_match, europe_pmc_match) ==
    IF IsSome(crossref_match) /\ IsSome(europe_pmc_match)
    THEN IF europe_pmc_match[1].score > crossref_match[1].score
         THEN europe_pmc_match
         ELSE crossref_match
    ELSE IF IsSome(crossref_match) THEN crossref_match ELSE europe_pmc_match

\* line 300: (primary_match or {}).get("doi") or (crossref_match or {}).get("doi")
DoiOf(primary_match, crossref_match) ==
    IF IsSome(primary_match) /\ primary_match[1].doi # "" THEN primary_match[1].doi
    ELSE IF IsSome(crossref_match) THEN crossref_match[1].doi
    ELSE ""

\* the URLs of the two matches with the Crossref links appended first
CollectUrlsCrossrefFirst(crossref_match, europe_pmc_match) ==
    (IF IsSome(crossref_match) THEN crossref_match[1].pdf_links ELSE <<>>)
    \o (IF IsSome(europe_pmc_match) /\ IsSome(europe_pmc_match[1].pdf_url)
        THEN <<europe_pmc_match[1].pdf_url[1]>> ELSE <<>>)

\* lines 302-306: the URLs of the two matches in the order they are appended
CollectUrls(crossref_match, europe_pmc_match) ==
    (IF IsSome(europe_pmc_match) /\ IsSome(europe_pmc_match[1].pdf_url)
     THEN <<europe_pmc_match[1].pdf_url[1]>> ELSE <<>>)
    \o (IF IsSome(crossref_match) THEN crossref_match[1].pdf_links ELSE <<>>)

EmailWarning == "UNPAYWALL_EMAIL is not set. Add it to increase legal full-text coverage."

\* One run of the coroutine discover_paper is a frame: its locals, the place
\* where it is suspended (pc: the upstream whose answer it awaits, or "done" /
\* "raised" once it has ended), the upstream GETs it has issued so far, in order
\* (calls), and the dict it returned.

\* lines 287-292 and 205: the frame suspended in the GET to Crossref;
\* `env_email` is the UNPAYWALL_EMAIL of the environment
DiscoverCall(title, name, env_email) ==
    [pc |-> "crossref",
     requested_title |-> title,
     requested_first_author_last_name |-> name,
     unpaywall_email |-> Strip(env_email),
     crossref_match |-> None,
     europe_pmc_match |-> None,
     primary_match |-> None,
     doi |-> "",
     candidate_urls |-> <<>>,
     unpaywall_url |-> None,
     calls |-> <<"crossref">>,
     result |-> None]

\* an exception leaves discover_paper
DiscoverRaise(frame) == [frame EXCEPT !.pc = "raised"]

\* lines 312-324: the warnings and the returned dict
DiscoverDict(frame, candidate_urls) ==
    [match |-> frame.primary_match,
     candidate_urls |-> candidate_urls,
     warnings |-> IF frame.doi # "" /\ frame.unpaywall_email = <<>>
                  THEN <<EmailWarning>> ELSE <<>>,
     crossref_match |-> frame.crossref_match,
     europe_pmc_match |-> frame.europe_pmc_match]

\* lines 312-324, `urls` being what dedupe_urls did on line 320
DiscoverReturn(frame, urls) ==
    IF urls.raised THEN DiscoverRaise(frame)
    ELSE [frame EXCEPT !.pc = "done", !.result = Some(DiscoverDict(frame, urls.value))]

\* lines 209-219 from the answer of Crossref on, then lines 295 and 227: the
\* frame suspended in the GET to Europe PMC
DiscoverCrossrefAnswered(frame, resp) ==
    LET c == fetch_crossref_match(resp, frame.requested_title,
                                  frame.requested_first_author_last_name)
    IN  IF c.raised THEN DiscoverRaise(frame)
        ELSE [frame EXCEPT !.pc = "europe_pmc",
                           !.crossref_match = c.value,
                           !.calls = Append(@, "europe_pmc")]

\* lines 299-306, e being the Europe PMC match
DiscoverCollect(frame, e) ==
    [frame EXCEPT !.europe_pmc_match = e,
                  !.primary_match = _pick_primary_match(frame.crossref_match, e),
                  !.doi = DoiOf(_pick_primary_match(frame.crossref_match, e),
                                frame.crossref_match),
                  !.candidate_urls = CollectUrls(frame.crossref_match, e)]

\* lines 307-324 up to the next await: with a DOI and an address the frame is
\* suspended in the GET to the open-access resolver, else the function returns
DiscoverResolve(frame) ==
    IF frame.doi # "" /\ frame.unpaywall_email # <<>>
    THEN [frame EXCEPT !.pc = "unpaywall", !.calls = Append(@, "unpaywall")]
    ELSE DiscoverReturn(frame, dedupe_urls(frame.candidate_urls))

\* lines 231-241 from the answer of Europe PMC on, then lines 299-308
DiscoverEuropePmcAnswered(frame, resp) ==
    LET e == fetch_europe_pmc_match(resp, frame.requested_title,
                                    frame.requested_first_author_last_name)
    IN  IF e.raised THEN DiscoverRaise(frame)
        ELSE DiscoverResolve(DiscoverCollect(frame, e.value))

\* lines 309-310, u being what fetch_unpaywall_pdf_url returned
DiscoverAppend(frame, u) ==
    [frame EXCEPT !.unpaywall_url = u,
                  !.candidate_urls = IF IsSome(u) THEN Append(@, u[1]) ELSE @]

\* lines 255-271 from the answer of the resolver on, then lines 309-324
DiscoverUnpaywallAnswered(frame, resp) ==
    LET u == fetch_unpaywall_pdf_url(resp)
    IN  IF u.raised THEN DiscoverRaise(frame)
        ELSE DiscoverReturn(DiscoverAppend(frame, u.value),
                            dedupe_urls(DiscoverAppend(frame, u.value).candidate_urls))

\* the frame after the Europe PMC answer `ep`, when it is still running
DiscoverSecond(frame, ep) ==
    IF frame.pc = "europe_pmc" THEN DiscoverEuropePmcAnswered(frame, ep) ELSE frame

\* the frame after the resolver's answer `up`, when it is still running
DiscoverThird(frame, up) ==
    IF frame.pc = "unpaywall" THEN DiscoverUnpaywallAnswered(frame, up) ELSE frame

\* discover_paper run to its end, cr / ep / up being the answers the three
\* upstreams give when asked: the final frame
discover_paper(title, name, env_email, cr, ep, up) ==
    DiscoverThird(
        DiscoverSecond(DiscoverCrossrefAnswered(DiscoverCall(title, name, env_email), cr), ep),
        up)

\* ------------------------------------------------------------ input domains
TitleChars == {"a", "b", "-"}
Titles == SeqsUpTo(TitleChars, MaxTitleLen)
QueryTitles == {<<>>, <<"-">>, <<"a", "b">>, <<"a", "-", "b">>, <<"b", "a", "b">>}
QueryNames == {<<>>, <<"-">>, <<"M">>, <<"m", " ", "c">>}
\* author entries: a family name ("" when the key is missing), or a JSON null
Families == {<<>>, <<"m">>, <<"W">>, <<"M", "-", "c">>}
Authors == {Author(f) : f \in Families} \cup {None}
\* firstAuthor: Some(text) ("" when the key is missing), or None for a JSON null
FirstAuthors ==
    {Some(<<>>), Some(<<"M", " ", "j">>), Some(<<"\r", "w">>), Some(<<"m", "c", " ", "k">>), None}

PdfType == <<"a", "p", "p", "l", "i", "c", "a", "t", "i", "o", "n", "/", "P", "D", "F">>
XmlType == <<"t", "e", "x", "t", "/", "x", "m", "l">>
\* https://h/a.pdf
UrlA == <<"h", "t", "t", "p", "s", ":", "/", "/", "h", "/", "a", ".", "p", "d", "f">>
\* https://h/a.pdf?
UrlAq == <<"h", "t", "t", "p", "s", ":", "/", "/", "h", "/", "a", ".", "p", "d", "f", "?">>
\* " HTTPS://h/a\n.pdf": a leading blank, an upper-case scheme, an inner line feed
UrlAup ==
    <<" ", "H", "T", "T", "P", "S", ":", "/", "/", "h", "/", "a", "\n", ".", "p", "d", "f">>
\* https://h/a.pdf#
UrlAfrag == <<"h", "t", "t", "p", "s", ":", "/", "/", "h", "/", "a", ".", "p", "d", "f", "#">>
\* https://h/a.pdf;
UrlAparams == <<"h", "t", "t", "p", "s", ":", "/", "/", "h", "/", "a", ".", "p", "d", "f", ";">>
\* https://h/a.pdf#x
UrlAx == <<"h", "t", "t", "p", "s", ":", "/", "/", "h", "/", "a", ".", "p", "d", "f", "#", "x">>
\* http://h/b
UrlB == <<"h", "t", "t", "p", ":", "/", "/", "h", "/", "b">>
\* https://g/c.PDF
UrlC == <<"h", "t", "t", "p", "s", ":", "/", "/", "g", "/", "c", ".", "P", "D", "F">>
\* ftp://h/a.pdf
UrlFtp == <<"f", "t", "p", ":", "/", "/", "h", "/", "a", ".", "p", "d", "f">>
\* javascript:x
UrlJs == <<"j", "a", "v", "a", "s", "c", "r", "i", "p", "t", ":", "x">>
\* http:/b
UrlNoHost == <<"h", "t", "t", "p", ":", "/", "b">>
\* //h/b
UrlNoScheme == <<"/", "/", "h", "/", "b">>
\* http://[h/b
UrlBracket == <<"h", "t", "t", "p", ":", "/", "/", "[", "h", "/", "b">>
\* http://:80/b : a network location that holds a port and no host
UrlPort == <<"h", "t", "t", "p", ":", "/", "/", ":", "8", "0", "/", "b">>
\* http://@/b : a network location that holds empty user information and no host
UrlUser == <<"h", "t", "t", "p", ":", "/", "/", "@", "/", "b">>
\* http://u@H:80/b : user information, an upper-case host and a port
UrlHost == <<"h", "t", "t", "p", ":", "/", "/", "u", "@", "H", ":", "8", "0", "/", "b">>
UrlPool ==
    {UrlA, UrlAq, UrlAup, UrlAfrag, UrlAparams, UrlAx, UrlB, UrlFtp, UrlNoHost, UrlBracket,
     UrlPort, UrlUser, UrlHost}

Link(u, ct) == [URL |-> u, content_type |-> ct]
CrossrefItem(titles, authors, doi, links) ==
    [title |-> titles, author |-> authors, DOI |-> doi, link |-> links]
FullText(u, style) == [url |-> u, documentStyle |-> style]
EuropePmcResult(t, fa, doi, urls, pmcid) ==
    [title |-> t, firstAuthor |-> fa, doi |-> doi, fullTextUrl |-> urls, pmcid |-> pmcid]

\* one-record Crossref / Europe PMC answers: every title over the title alphabet
\* with a few author fields, and every author list with a few titles
FewTitles == {<<>>, <<"a", "b">>, <<"A", "-", "b">>, <<"b">>}
FewAuthorLists ==
    {<<>>, <<Author(<<"m">>)>>, <<Author(<<"W">>), Author(<<"M", "-", "c">>)>>}
FewFirstAuthors == {Some(<<>>), Some(<<"M", " ", "j">>)}
WideCrossrefItems ==
    {CrossrefItem(ts, as, "10.1/w", <<>>) :
        ts \in {<<>>} \cup {<<t>> : t \in Titles}, as \in FewAuthorLists}
    \cup
    {CrossrefItem(ts, as, "10.1/w", <<>>) :
        ts \in {<<>>} \cup {<<t>> : t \in FewTitles}, as \in SeqsUpTo(Authors, MaxAuthors)}
WideEuropePmcResults ==
    {EuropePmcResult(t, fa, "10.1/w", <<>>, <<>>) : t \in Titles, fa \in FewFirstAuthors}
    \cup
    {EuropePmcResult(t, fa, "10.1/w", <<>>, <<>>) : t \in FewTitles, fa \in FirstAuthors}

\* records that tie, carry links, or lack fields
CrossrefPool ==
    {CrossrefItem(<<<<"a", "b">>>>, <<Author(<<"m">>)>>, "10.1/a", <<Link(UrlA, PdfType), Link(UrlB, XmlType)>>),
     CrossrefItem(<<<<"a", "b">>>>, <<Author(<<"m">>)>>, "10.1/b", <<>>),
     CrossrefItem(<<<<"A", "-", "b">>>>, <<Author(<<"W">>), Author(<<"m", "c">>)>>, "", <<Link(UrlC, PdfType)>>),
     CrossrefItem(<<<<"b">>>>, <<>>, "10.1/c", <<Link(EmptyUrl, PdfType), Link(UrlFtp, PdfType)>>),
     CrossrefItem(<<>>, <<Author(<<"W">>)>>, "10.1/d", <<>>)}
EuropePmcPool ==
    {EuropePmcResult(<<"a", "b">>, Some(<<"M", " ", "j">>), "10.1/a", <<FullText(UrlB, <<"h", "t", "m", "l">>), FullText(UrlC, <<"P", "D", "F">>)>>, <<>>),
     EuropePmcResult(<<"a", "b">>, Some(<<"M", " ", "j">>), "10.1/e", <<>>, <<"7">>),
     EuropePmcResult(<<"a", "-", "b">>, Some(<<"w">>), "", <<FullText(UrlAq, <<>>)>>, <<>>),
     EuropePmcResult(<<"b">>, Some(<<>>), "10.1/c", <<FullText(UrlA, <<>>)>>, <<"\r">>),
     EuropePmcResult(<<>>, Some(<<"m", "c">>), "10.1/d", <<>>, <<>>)}

\* Single cases: the sum 0.15 + 0.30, which as a float is below 0.45; the score
\* 0.5625, which lies halfway between two thousandths; a title of 200
\* characters, where difflib drops the popular characters from its index; a
\* link that urlparse rejects; a null author entry and a null firstAuthor
Title20 == <<"a", "b", "c", "x", "x", "x", "x", "x", "x", "x", "x", "x", "x", "x", "x", "x", "x", "x", "x", "x">>
Query20 == <<"a", "b", "c", "y", "y", "y", "y", "y", "y", "y", "y", "y", "y", "y", "y", "y", "y", "y", "y", "y">>
Title16 == <<"a", "b", "c", "d", "e", "f", "g", "h", "i", "x", "x", "x", "x", "x", "x", "x">>
Query16 == <<"a", "b", "c", "d", "e", "f", "g", "h", "i", "y", "y", "y", "y", "y", "y", "y">>
Query200 == [i \in 1..200 |-> IF i % 2 = 1 THEN "a" ELSE "b"]
Title200 == [i \in 1..200 |-> IF i % 2 = 1 THEN "b" ELSE "a"]
\* well-formed JSON that the code cannot process once the record is selected: a
\* PDF link that urlparse rejects, a null author entry, a full-text URL that
\* urlparse rejects
CrossrefBadLink ==
    CrossrefItem(<<<<"a", "b">>>>, <<Author(<<"m">>)>>, "10.1/a", <<Link(UrlBracket, PdfType)>>)
CrossrefNullAuthor ==
    CrossrefItem(<<<<"a", "b">>>>, <<Author(<<"m">>), None>>, "10.1/a", <<>>)
EuropePmcBadUrl ==
    EuropePmcResult(<<"a", "b">>, Some(<<"M", " ", "j">>), "10.1/a",
                    <<FullText(UrlBracket, <<"p", "d", "f">>)>>, <<>>)
EdgeInputs ==
    {<<"crossref", <<CrossrefItem(<<Title20>>, <<Author(<<"m">>)>>, "10.1/f", <<>>)>>, Query20>>,
     <<"europe_pmc", <<EuropePmcResult(Title20, Some(<<"M", " ", "j">>), "10.1/f", <<>>, <<>>)>>, Query20>>,
     <<"crossref", <<CrossrefItem(<<Title16>>, <<Author(<<"W">>)>>, "10.1/g", <<>>)>>, Query16>>,
     <<"europe_pmc", <<EuropePmcResult(Title16, Some(<<>>), "10.1/g", <<>>, <<"7">>)>>, Query16>>,
     <<"crossref", <<CrossrefItem(<<Title200>>, <<Author(<<"m">>)>>, "10.1/h", <<>>),
                     CrossrefItem(<<<<"a", "b">>>>, <<Author(<<"m">>)>>, "10.1/a", <<>>)>>, Query200>>,
     <<"europe_pmc", <<EuropePmcResult(Query200, Some(<<"M", " ", "j">>), "10.1/h", <<>>, <<>>)>>, Query200>>,
     <<"crossref", <<CrossrefBadLink>>, <<"a", "b">>>>,
     <<"crossref", <<CrossrefNullAuthor>>, <<"a", "b">>>>,
     <<"europe_pmc", <<EuropePmcResult(<<"a", "b">>, None, "10.1/a", <<>>, <<>>)>>, <<"a", "b">>>>}

EdgeNames == QueryNames \cup {<<"N", "o", "n", "e">>}

AdapterInputs ==
    ({"crossref"} \X ({<<i>> : i \in WideCrossrefItems} \cup SeqsUpTo(CrossrefPool, MaxItems)))
    \cup
    ({"europe_pmc"} \X ({<<r>> : r \in WideEuropePmcResults} \cup SeqsUpTo(EuropePmcPool, MaxItems)))

\* --------------------------------------------------------- upstream answers
Fail(kind) == [kind |-> kind, records |-> <<>>]
Ok(records) == [kind |-> "ok", records |-> records]
FailKinds == {"transport", "status", "not_found", "bad_json"}
CrossrefResponses ==
    {Fail(k) : k \in FailKinds}
    \cup {Ok(r) : r \in SeqsUpTo(CrossrefPool \cup {CrossrefBadLink, CrossrefNullAuthor}, 1)}
EuropePmcResponses ==
    {Fail(k) : k \in FailKinds}
    \cup {Ok(r) : r \in SeqsUpTo(EuropePmcPool \cup {EuropePmcBadUrl}, 1)}

Location(pdf, u) == [url_for_pdf |-> pdf, url |-> u]
NoLocation == Location(EmptyUrl, EmptyUrl)
Unpaywall(kind, best, locations) ==
    [kind |-> kind, best_oa_location |-> best, oa_locations |-> locations]
UnpaywallResponses ==
    {Unpaywall(k, NoLocation, <<>>) : k \in FailKinds}
    \cup {Unpaywall("ok", Location(UrlB, UrlC), <<>>),
          Unpaywall("ok", Location(EmptyUrl, UrlAq), <<Location(UrlC, EmptyUrl)>>),
          Unpaywall("ok", NoLocation, <<NoLocation, Location(EmptyUrl, UrlC), Location(UrlB, UrlB)>>),
          Unpaywall("ok", Location(UrlBracket, EmptyUrl), <<>>),
          Unpaywall("ok", NoLocation, <<>>)}
Emails == {<<>>, <<" ">>, <<"o", "@", "x">>}
DiscoverTitles == {<<"-">>, <<"a", "b">>, <<"a", "-", "b">>}
DiscoverNames == {<<>>, <<"M">>, <<"m", " ", "c">>}

\* ------------------------------------------------------ the download cache
DOWNLOAD_TTL_SECONDS == 30 * 60

\* the sweep with the subtraction the wrong way round: nothing ever expires
_prune_download_cache_reversed(cache, t) ==
    LET expired_tokens ==
            {token \in DOMAIN cache : cache[token].created_at - t > DOWNLOAD_TTL_SECONDS}
    IN  [token \in DOMAIN cache \ expired_tokens |-> cache[token]]

\* _prune_download_cache when time.time() on line 68 gives t: the cache without
\* the expired tokens
_prune_download_cache(cache, t) ==
    LET expired_tokens ==
            {token \in DOMAIN cache : t - cache[token].created_at > DOWNLOAD_TTL_SECONDS}
    IN  [token \in DOMAIN cache \ expired_tokens |-> cache[token]]

\* _register_download: the sweep reads the clock on line 68 (t_prune), the new
\* entry is stamped with a second reading on line 80 (t_created); uuid4 gives
\* `token` (the filename is left out)
_register_download(cache, url, token, t_prune, t_created) ==
    LET pruned == _prune_download_cache(cache, t_prune)
    IN  [k \in DOMAIN pruned \cup {token} |->
            IF k = token THEN [url |-> url, created_at |-> t_created] ELSE pruned[k]]

\* A reply: op, HTTP status, the download token of the body or of the path
\* (0: none), the JSON body of a 200 lookup, and the frame of discover_paper the
\* handler got (a lookup only)
NoResponse == [op |-> "none", status |-> 0, token |-> 0, body |-> None, discovered |-> None]

Reply(op, status, token, body, discovered) ==
    [op |-> op, status |-> status, token |-> token, body |-> body, discovered |-> discovered]

\* the 404 test looking at the candidate URLs alone
LookupNotFoundNoUrls(found, candidate_urls) == candidate_urls = <<>>

\* lines 104-108: the 404 test on the discovery result
LookupNotFound(found, candidate_urls) == ~IsSome(found) /\ candidate_urls = <<>>

\* lines 115-121: the JSON body of a 200 answer
LookupBody(result, download_available) ==
    [match |-> result.match,
     candidate_urls |-> result.candidate_urls,
     download_available |-> download_available,
     warnings |-> result.warnings]

\* POST /api/lookup from the end of discover_paper on (lines 101-121), `frame`
\* being the ended frame: the cache and the reply.  An exception that left
\* discover_paper is the framework's 500.
lookup(cache, frame, token, t_prune, t_created) ==
    IF frame.pc = "raised"
    THEN [cache |-> cache,
          response |-> Reply("lookup", 500, 0, None, Some(frame))]
    ELSE IF LookupNotFound(frame.result[1].match, frame.result[1].candidate_urls)
    THEN [cache |-> cache,
          response |-> Reply("lookup", 404, 0, None, Some(frame))]
    ELSE IF frame.result[1].candidate_urls # <<>>
    THEN [cache |-> _register_download(cache, frame.result[1].candidate_urls[1], token,
                                       t_prune, t_created),
          response |-> Reply("lookup", 200, token,
                             Some(LookupBody(frame.result[1], TRUE)), Some(frame))]
    ELSE [cache |-> cache,
          response |-> Reply("lookup", 200, 0,
                             Some(LookupBody(frame.result[1], FALSE)), Some(frame))]

\* the first part of the download handler taking the entry out of the cache
download_consuming(cache, token, t) ==
    LET pruned == _prune_download_cache(cache, t)
    IN  [cache |-> [k \in DOMAIN pruned \ {token} |-> pruned[k]],
         entry |-> IF token \in DOMAIN pruned THEN Some(pruned[token]) ELSE None]

\* GET /api/download/{token} up to its await (lines 126-139), the sweep reading
\* the clock as t: the cache, and the entry found (None: the 404 of line 129)
download(cache, token, t) ==
    LET pruned == _prune_download_cache(cache, t)
    IN  [cache |-> pruned,
         entry |-> IF token \in DOMAIN pruned THEN Some(pruned[token]) ELSE None]

\* lines 140-150: the status of the reply once the upstream GET has ended;
\* fetched_ok: it succeeded with a 2xx status
DownloadStatus(fetched_ok) == IF fetched_ok THEN 200 ELSE 502

\* A handler suspended in an await: a lookup inside discover_paper (frame), or a
\* download in the GET of the file (token, the entry it read)
LookupHandler(frame) == [op |-> "lookup", frame |-> Some(frame), token |-> 0, entry |-> None]
DownloadHandler(token, entry) ==
    [op |-> "download", frame |-> None, token |-> token, entry |-> entry]

\* bounds of the server model
MaxTokens == 2
MaxTtlSpans == 2
MaxInFlight == 2
MaxClock == MaxTtlSpans * (DOWNLOAD_TTL_SECONDS + 1)
\* the clock moves by the TTL or a second less between two steps, and by
\* ClockDrift seconds between the two clock readings of _register_download: an
\* entry is seen at 1799, 1800 and 1801 seconds and at later ages
TickSteps == {DOWNLOAD_TTL_SECONDS - 1, DOWNLOAD_TTL_SECONDS}
ClockDrift == {0, 1}

\* a request that passes LookupRequest's validation (title 5-500, name 2-100
\* characters); both fields are stripped on lines 98-99
ApiTitles == {<<" ", "a", "b", "\r", "\f">>}
ApiNames == {<<"M", " ">>}

\* what the upstreams answer while the server runs: Crossref fails or finds a
\* record without DOI or link, Europe PMC fails, sends a body that is not JSON,
\* or finds a record with a DOI and a PDF URL, the resolver knows one more URL
ServerCrossref ==
    {Fail("transport"),
     Ok(<<CrossrefItem(<<<<"a", "b">>>>, <<Author(<<"m">>)>>, "", <<>>)>>)}
ServerEuropePmc ==
    {Fail("status"),
     Fail("bad_json"),
     Ok(<<EuropePmcResult(<<"a", "b">>, Some(<<"M", " ", "j">>), "10.1/a",
                          <<FullText(UrlA, <<"p", "d", "f">>)>>, <<>>)>>)}
ServerUnpaywall ==
    {Unpaywall("ok", Location(UrlB, UrlC), <<>>)}
ServerEmails == {<<"o", "@", "x">>}

\* ------------------------------------------------------------------- state
VARIABLES
    \* one source adapter run on one upstream answer
    source, items, requested_title, requested_last_name,
    idx, best_item, best_score, scores, picked, match, apc,
    \* one dedupe_urls call
    urls, deduped, upc,
    \* one discover_paper call: its arguments, the UNPAYWALL_EMAIL of the
    \* environment, the answer each upstream gave (None: not asked so far), its frame
    d_title, d_name, d_email, d_crossref, d_europe_pmc, d_unpaywall, d_frame,
    \* the server: cache, clock, next uuid, every token's created_at, the last
    \* reply, the handlers suspended in an await, the clock reading of the sweep
    \* of the last step
    DOWNLOAD_CACHE, now, next_token, registered, response, inflight, swept

adapterVars == <<source, items, requested_title, requested_last_name,
                 idx, best_item, best_score, scores, picked, match, apc>>
urlVars == <<urls, deduped, upc>>
discoverVars == <<d_title, d_name, d_email, d_crossref, d_europe_pmc, d_unpaywall, d_frame>>
serverVars == <<DOWNLOAD_CACHE, now, next_token, registered, response, inflight, swept>>
vars == <<adapterVars, urlVars, discoverVars, serverVars>>

\* no discover_paper call
NoFrame == [DiscoverCall(<<>>, <<>>, <<>>) EXCEPT !.pc = "idle", !.calls = <<>>]

AdapterIdle ==
    /\ source = "crossref" /\ items = <<>> /\ requested_title = <<>>
    /\ requested_last_name = <<>> /\ idx = 1 /\ best_item = None /\ best_score = MinusOne
    /\ scores = <<>> /\ picked = <<None, FloatZero>> /\ match = None /\ apc = "idle"
UrlIdle == urls = <<>> /\ deduped = <<>> /\ upc = "idle"
DiscoverIdle ==
    /\ d_title = <<>> /\ d_name = <<>> /\ d_email = <<>>
    /\ d_crossref = None /\ d_europe_pmc = None /\ d_unpaywall = None
    /\ d_frame = NoFrame
ServerIdle ==
    /\ DOWNLOAD_CACHE = <<>> /\ now = 0 /\ next_token = 1
    /\ registered = <<>> /\ response = NoResponse /\ inflight = EmptyBag /\ swept = None

\* ------------------------------------------------- the source adapter steps
InitAdapter ==
    /\ \/ /\ \E in \in AdapterInputs : source = in[1] /\ items = in[2]
          /\ requested_title \in QueryTitles
          /\ requested_last_name \in QueryNames
       \/ /\ \E in \in EdgeInputs :
                source = in[1] /\ items = in[2] /\ requested_title = in[3]
          /\ requested_last_name \in EdgeNames
    /\ idx = 1 /\ best_item = None /\ best_score = MinusOne
    /\ scores = <<>> /\ picked = <<None, FloatZero>> /\ match = None /\ apc = "loop"
    /\ UrlIdle /\ DiscoverIdle /\ ServerIdle

\* lines 111-115 / 144-148: score the next record, keep it if strictly better
PickStep ==
    /\ apc = "loop" /\ idx <= Len(items)
    /\ LET score == ScoreOf(source, items[idx], requested_title, requested_last_name)
           next  == PickLoopBody(items[idx], score, best_item, best_score)
       IN  /\ best_item' = next[1]
           /\ best_score' = next[2]
           /\ scores' = Append(scores, score)
    /\ idx' = idx + 1
    /\ UNCHANGED <<source, items, requested_title, requested_last_name, picked, match, apc>>
    /\ UNCHANGED <<urlVars, discoverVars, serverVars>>

\* lines 117-119 / 150-152
PickReturn ==
    /\ apc = "loop" /\ idx > Len(items)
    /\ picked' = PickReturnValue(best_item, best_score)
    /\ apc' = "picked"
    /\ UNCHANGED <<source, items, requested_title, requested_last_name,
                   idx, best_item, best_score, scores, match>>
    /\ UNCHANGED <<urlVars, discoverVars, serverVars>>

\* lines 217-219 / 239-241
FetchReturn ==
    /\ apc = "picked"
    /\ match' = FetchReturnValue(source, picked).value
    /\ apc' = IF FetchReturnValue(source, picked).raised THEN "raised" ELSE "done"
    /\ UNCHANGED <<source, items, requested_title, requested_last_name,
                   idx, best_item, best_score, scores, picked>>
    /\ UNCHANGED <<urlVars, discoverVars, serverVars>>

NextAdapter == PickStep \/ PickReturn \/ FetchReturn
SpecAdapter == InitAdapter /\ [][NextAdapter]_vars

\* ------------------------------------------------------------- dedupe_urls
InitUrls ==
    /\ urls \in SeqsUpTo(UrlPool, MaxUrls)
    /\ deduped = <<>> /\ upc = "call"
    /\ AdapterIdle /\ DiscoverIdle /\ ServerIdle

Dedupe ==
    /\ upc = "call"
    /\ deduped' = dedupe_urls(urls).value
    /\ upc' = IF dedupe_urls(urls).raised THEN "raised" ELSE "done"
    /\ UNCHANGED urls
    /\ UNCHANGED <<adapterVars, discoverVars, serverVars>>

NextUrls == Dedupe
SpecUrls == InitUrls /\ [][NextUrls]_vars

\* ------------------------------------------------------------ discover_paper
\* One call, from its first await on.  Each step takes the answer of the
\* upstream the coroutine is suspended in and runs the code up to the next
\* await, or to the end of the function.
InitDiscover ==
    /\ d_title \in DiscoverTitles /\ d_name \in DiscoverNames /\ d_email \in Emails
    /\ d_crossref = None /\ d_europe_pmc = None /\ d_unpaywall = None
    /\ d_frame = DiscoverCall(d_title, d_name, d_email)
    /\ AdapterIdle /\ UrlIdle /\ ServerIdle

\* the await of line 292 ends
DiscoverCrossref ==
    /\ d_frame.pc = "crossref"
    /\ \E resp \in CrossrefResponses :
          /\ d_crossref' = Some(resp)
          /\ d_frame' = DiscoverCrossrefAnswered(d_frame, resp)
    /\ UNCHANGED <<d_title, d_name, d_email, d_europe_pmc, d_unpaywall>>
    /\ UNCHANGED <<adapterVars, urlVars, serverVars>>

\* the await of line 295 ends
DiscoverEuropePmc ==
    /\ d_frame.pc = "europe_pmc"
    /\ \E resp \in EuropePmcResponses :
          /\ d_europe_pmc' = Some(resp)
          /\ d_frame' = DiscoverEuropePmcAnswered(d_frame, resp)
    /\ UNCHANGED <<d_title, d_name, d_email, d_crossref, d_unpaywall>>
    /\ UNCHANGED <<adapterVars, urlVars, serverVars>>

\* the await of line 308 ends
DiscoverUnpaywall ==
    /\ d_frame.pc = "unpaywall"
    /\ \E resp \in UnpaywallResponses :
          /\ d_unpaywall' = Some(resp)
          /\ d_frame' = DiscoverUnpaywallAnswered(d_frame, resp)
    /\ UNCHANGED <<d_title, d_name, d_email, d_crossref, d_europe_pmc>>
    /\ UNCHANGED <<adapterVars, urlVars, serverVars>>

NextDiscover == DiscoverCrossref \/ DiscoverEuropePmc \/ DiscoverUnpaywall
SpecDiscover == InitDiscover /\ [][NextDiscover]_vars

\* ---------------------------------------------------------------- the server
\* The handlers run on one event loop: the code between two awaits of a handler
\* is one step, and while a handler is suspended in an await the clock moves
\* and other handlers run.  d_email is the UNPAYWALL_EMAIL of the environment.
Init ==
    /\ DOWNLOAD_CACHE = <<>> /\ now = 0 /\ next_token = 1
    /\ registered = <<>> /\ response = NoResponse /\ inflight = EmptyBag /\ swept = None
    /\ d_title = <<>> /\ d_name = <<>>
    /\ d_crossref = None /\ d_europe_pmc = None /\ d_unpaywall = None
    /\ d_frame = NoFrame
    /\ d_email \in ServerEmails
    /\ AdapterIdle /\ UrlIdle

\* the suspended handlers of a kind, and the suspended lookups at a place
Suspended(op) == {h \in BagToSet(inflight) : h.op = op}
SuspendedAt(pcs) == {h \in Suspended("lookup") : h.frame[1].pc \in pcs}
LookupsInFlight == BagCardinality([h \in Suspended("lookup") |-> inflight[h]])

\* the bag with one h replaced by the lookup at `frame`
Resumed(h, frame) == (inflight (-) SetToBag({h})) (+) SetToBag({LookupHandler(frame)})

\* a step of a lookup inside discover_paper: no reply, no sweep, the cache untouched
LookupAwaits ==
    /\ response' = NoResponse /\ swept' = None
    /\ UNCHANGED <<DOWNLOAD_CACHE, now, next_token, registered>>
    /\ UNCHANGED <<adapterVars, urlVars, discoverVars>>

\* POST /api/lookup arrives: lines 97-100 up to the first await of discover_paper
LookupCall ==
    /\ BagCardinality(inflight) < MaxInFlight
    /\ next_token + LookupsInFlight <= MaxTokens
    /\ \E title \in ApiTitles, name \in ApiNames :
          inflight' = inflight (+) SetToBag({LookupHandler(
                          DiscoverCall(Strip(title), Strip(name), d_email))})
    /\ LookupAwaits

\* the await of line 292 ends in a lookup
LookupCrossref ==
    /\ \E h \in SuspendedAt({"crossref"}), resp \in ServerCrossref :
          inflight' = Resumed(h, DiscoverCrossrefAnswered(h.frame[1], resp))
    /\ LookupAwaits

\* the await of line 295 ends in a lookup
LookupEuropePmc ==
    /\ \E h \in SuspendedAt({"europe_pmc"}), resp \in ServerEuropePmc :
          inflight' = Resumed(h, DiscoverEuropePmcAnswered(h.frame[1], resp))
    /\ LookupAwaits

\* the await of line 308 ends in a lookup
LookupUnpaywall ==
    /\ \E h \in SuspendedAt({"unpaywall"}), resp \in ServerUnpaywall :
          inflight' = Resumed(h, DiscoverUnpaywallAnswered(h.frame[1], resp))
    /\ LookupAwaits

\* what lookup gives when the clock is read again `drift` seconds after the sweep
LookupDone(h, drift) == lookup(DOWNLOAD_CACHE, h.frame[1], next_token, now, now + drift)

LookupEffect(done, drift) ==
    /\ DOWNLOAD_CACHE' = done.cache
    /\ response' = done.response
    /\ now' = IF done.response.token # 0 THEN now + drift ELSE now
    /\ swept' = IF done.response.token # 0 THEN Some(now) ELSE None
    /\ next_token' = IF done.response.token # 0 THEN next_token + 1 ELSE next_token
    /\ registered' = IF done.response.token # 0
                     THEN Append(registered, now + drift) ELSE registered

\* the await of line 97 ends: lines 101-121, or the exception, and the reply
LookupReturn ==
    /\ \E h \in SuspendedAt({"done", "raised"}), drift \in ClockDrift :
          /\ now + drift <= MaxClock
          /\ LookupEffect(LookupDone(h, drift), drift)
          /\ inflight' = inflight (-) SetToBag({h})
    /\ UNCHANGED <<adapterVars, urlVars, discoverVars>>

DownloadEffect(token, found) ==
    /\ DOWNLOAD_CACHE' = found.cache
    /\ response' = IF found.entry = None
                   THEN Reply("download", 404, token, None, None)
                   ELSE NoResponse
    /\ inflight' = IF found.entry = None
                   THEN inflight
                   ELSE inflight (+) SetToBag({DownloadHandler(token, found.entry)})

\* GET /api/download/{token} arrives: lines 126-139, up to the 404 or the await
DownloadCall ==
    /\ \E token \in 1..MaxTokens :
          /\ download(DOWNLOAD_CACHE, token, now).entry # None =>
                BagCardinality(inflight) < MaxInFlight
          /\ DownloadEffect(token, download(DOWNLOAD_CACHE, token, now))
    /\ swept' = Some(now)
    /\ UNCHANGED <<now, next_token, registered>>
    /\ UNCHANGED <<adapterVars, urlVars, discoverVars>>

\* the await of line 139 ends: lines 140-150 and the reply
DownloadReturn ==
    /\ \E h \in Suspended("download"), fetched_ok \in BOOLEAN :
          /\ response' = Reply("download", DownloadStatus(fetched_ok), h.token, None, None)
          /\ inflight' = inflight (-) SetToBag({h})
    /\ swept' = None
    /\ UNCHANGED <<DOWNLOAD_CACHE, now, next_token, registered>>
    /\ UNCHANGED <<adapterVars, urlVars, discoverVars>>

\* time.time() moves on
Tick ==
    /\ \E d \in TickSteps : now + d <= MaxClock /\ now' = now + d
    /\ response' = NoResponse /\ swept' = None
    /\ UNCHANGED <<DOWNLOAD_CACHE, next_token, registered, inflight>>
    /\ UNCHANGED <<adapterVars, urlVars, discoverVars>>

Next ==
    \/ LookupCall \/ LookupCrossref \/ LookupEuropePmc \/ LookupUnpaywall \/ LookupReturn
    \/ DownloadCall \/ DownloadReturn
    \/ Tick
Spec == Init /\ [][Next]_vars

\* ================================================================== claims
IndexIn(seq, x) == SetMin({i \in 1..Len(seq) : seq[i] = x})
NoRepeats(seq) == \A i, j \in 1..Len(seq) : i # j => seq[i] # seq[j]

\* ------------------------------------------------------------------- C1
\* scores holds, in list order, the score the scorer gave each record of the list
TopScore == CHOOSE x \in Range(scores) : \A y \in Range(scores) : ~FloatLess(x, y)
FirstTop == SetMin({i \in 1..Len(scores) : scores[i] = TopScore})

\* C1: once pick_best_crossref_item / pick_best_europe_pmc_result has returned,
\* the value is (None, 0.0) when the list is empty or its highest per-record
\* score is below 0.45, and otherwise the first record in list order that
\* attains the highest score, with that score.
C1_PickBest ==
    apc \in {"picked", "done", "raised"} =>
        /\ Len(scores) = Len(items)
        /\ IF items = <<>> \/ FloatLess(TopScore, Threshold45)
           THEN picked = <<None, FloatZero>>
           ELSE picked = <<Some(items[FirstTop]), TopScore>>

\* two different records tie at a highest score that passes the threshold
C1_Witness ==
    /\ apc = "picked" /\ Len(items) >= 2
    /\ ~FloatLess(TopScore, Threshold45)
    /\ \E j \in 1..Len(items) :
          j > FirstTop /\ scores[j] = TopScore /\ items[j] # items[FirstTop]
    /\ picked[1] = Some(items[FirstTop])

\* ------------------------------------------------------------------- C2
DiscoverDone == d_frame.pc = "done"
DiscoverResult == d_frame.result[1]

\* C2: the primary match of a discover_paper result is the Europe PMC match
\* only when both matches are present and its score is strictly greater, the
\* Crossref match when both are present otherwise, the single present match
\* when one is present, and None when neither is.
C2_PrimaryMatch ==
    DiscoverDone =>
        LET c == DiscoverResult.crossref_match
            e == DiscoverResult.europe_pmc_match
            m == DiscoverResult.match
        IN  /\ (IsSome(c) /\ IsSome(e) /\ e[1].score > c[1].score) => m = e
            /\ (IsSome(c) /\ IsSome(e) /\ e[1].score <= c[1].score) => m = c
            /\ (IsSome(c) /\ ~IsSome(e)) => m = c
            /\ (~IsSome(c) /\ IsSome(e)) => m = e
            /\ (~IsSome(c) /\ ~IsSome(e)) => m = None

\* both sources matched with equal scores and Crossref is primary
C2_Witness ==
    /\ DiscoverDone
    /\ IsSome(DiscoverResult.crossref_match) /\ IsSome(DiscoverResult.europe_pmc_match)
    /\ DiscoverResult.europe_pmc_match[1].score = DiscoverResult.crossref_match[1].score
    /\ DiscoverResult.match = DiscoverResult.crossref_match
    /\ DiscoverResult.match[1].source = "crossref"

\* ------------------------------------------------------------------- C3
\* ParseResult.hostname: the network location without the user information
\* and the port, lower-cased up to a "%"; None when that text is empty
hostname(parsed) ==
    LET ats == {i \in 1..Len(parsed.netloc) : parsed.netloc[i] = "@"}
        hostinfo == IF ats = {} THEN parsed.netloc
                    ELSE SubSeq(parsed.netloc, SetMax(ats) + 1, Len(parsed.netloc))
        host == IF "[" \in Range(hostinfo) THEN BracketedHost(hostinfo)
                ELSE SplitAt(hostinfo, ":")[1]
    IN  IF host = <<>> THEN None
        ELSE Some(Lower(SplitAt(host, "%")[1])
                  \o (IF "%" \in Range(host) THEN <<"%">> \o SplitAt(host, "%")[2] ELSE <<>>))

Canonical(url) == geturl(urlparse(url).value)
Kept(url) == ~urlparse(url).raised /\ HttpWithHost(urlparse(url).value)
FirstSeen(form) ==
    SetMin({k \in 1..Len(urls) : Kept(urls[k]) /\ Canonical(urls[k]) = form})

\* C3 as stated: the output of dedupe_urls holds only URLs with scheme http or
\* https and a non-empty host, holds no URL twice, and lists the surviving URLs
\* in the order of their first occurrence in the input.
C3_DedupeUrls ==
    upc = "done" =>
        /\ \A i \in 1..Len(deduped) :
              /\ ~urlparse(deduped[i]).raised
              /\ urlparse(deduped[i]).value.scheme \in {Http, Https}
              /\ hostname(urlparse(deduped[i]).value) # None
        /\ NoRepeats(deduped)
        /\ \A i \in 1..Len(deduped) : \E k \in 1..Len(urls) : Kept(urls[k]) /\ Canonical(urls[k]) = deduped[i]
        /\ \A i, j \in 1..Len(deduped) :
              i < j => FirstSeen(deduped[i]) < FirstSeen(deduped[j])

\* ------------------------------------------------------------------- C4
Survivable == {"ok", "transport", "status", "not_found"}
FoundNothing == Ok(<<>>)
ResolvedNothing == Unpaywall("ok", NoLocation, <<>>)

\* the call succeeded, or failed by transport or non-2xx status, or was not made
Survived(answer) == IsSome(answer) => answer[1].kind \in Survivable
Failed(answer) == IsSome(answer) /\ answer[1].kind # "ok"
\* the answer given, or `nothing` in place of a failure
Degraded(answer, nothing) == IF IsSome(answer) /\ answer[1].kind = "ok" THEN answer[1] ELSE nothing

\* C4 as stated: when each of the three upstream calls either succeeds or fails
\* by transport or non-2xx status, discover_paper returns without raising, has
\* asked each upstream at most once, and its result is the one it returns when
\* every failed source instead answers successfully with nothing found.
C4_FailureDegrades ==
    (/\ d_frame.pc \in {"done", "raised"}
     /\ Survived(d_crossref) /\ Survived(d_europe_pmc) /\ Survived(d_unpaywall)) =>
        /\ d_frame.pc = "done"
        /\ NoRepeats(d_frame.calls)
        /\ Failed(d_crossref) => d_frame.crossref_match = None
        /\ Failed(d_europe_pmc) => d_frame.europe_pmc_match = None
        /\ Failed(d_unpaywall) => d_frame.unpaywall_url = None
        /\ d_frame.result =
              discover_paper(d_title, d_name, d_email,
                             Degraded(d_crossref, FoundNothing),
                             Degraded(d_europe_pmc, FoundNothing),
                             Degraded(d_unpaywall, ResolvedNothing)).result

\* ------------------------------------------------------------------- C5
\* C5: a lookup that got a discovery result answers 404 exactly when the result
\* has no primary match and no candidate URLs; when both adapters returned no
\* match the resolver was not asked, the answer is 404 and the cache is left as
\* it was; every other answer is 200 and carries a download token, newly
\* registered for candidate_urls[0], if and only if candidate_urls is non-empty.
C5_LookupStatus ==
    [][(response'.op = "lookup" /\ response'.discovered[1].pc = "done") =>
          LET frame == response'.discovered[1]
              r     == frame.result[1]
          IN  /\ response'.status = 404 <=> (r.match = None /\ r.candidate_urls = <<>>)
              /\ (r.crossref_match = None /\ r.europe_pmc_match = None) =>
                    /\ "unpaywall" \notin Range(frame.calls)
                    /\ response'.status = 404
                    /\ response'.token = 0
                    /\ DOWNLOAD_CACHE' = DOWNLOAD_CACHE
              /\ response'.status # 404 =>
                    /\ response'.status = 200
                    /\ response'.token # 0 <=> r.candidate_urls # <<>>
                    /\ response'.body[1].download_available <=> r.candidate_urls # <<>>
                    /\ response'.token # 0 =>
                          /\ response'.token \notin DOMAIN DOWNLOAD_CACHE
                          /\ response'.token \in DOMAIN DOWNLOAD_CACHE'
                          /\ DOWNLOAD_CACHE'[response'.token].url = r.candidate_urls[1]
    ]_vars

\* a lookup found nothing in either source while the cache holds a token and
\* another handler is suspended
C5_Witness ==
    /\ response.op = "lookup" /\ response.status = 404
    /\ response.discovered[1].pc = "done"
    /\ response.discovered[1].result[1].crossref_match = None
    /\ response.discovered[1].result[1].europe_pmc_match = None
    /\ DOMAIN DOWNLOAD_CACHE # {}
    /\ inflight # EmptyBag

\* ------------------------------------------------------------------- C6
\* the seconds between the creation of token k (its created_at) and time t
Age(k, t) == t - registered[k]

\* this step started a download handler that found the entry of token k and
\* went on to fetch the file
Accepted(k) ==
    \E h \in BagToSet(inflight') :
        /\ h.op = "download" /\ h.token = k
        /\ CopiesIn(h, inflight') > CopiesIn(h, inflight)
        /\ h.entry[1].created_at = registered[k]
\* this step started a download handler that answered 404 for token k
Rejected(k) == response'.op = "download" /\ response'.token = k /\ response'.status = 404
\* this step ended a download handler of token k that had found the entry
Served(k) ==
    \E h \in BagToSet(inflight) :
        /\ h.op = "download" /\ h.token = k
        /\ CopiesIn(h, inflight') < CopiesIn(h, inflight)

\* C6: for a token created at time t, whatever handlers run in between: while
\* fewer than 1800 seconds have passed since t the entry is in the cache as it
\* was created (no sweep, no lookup and no download removes it); a download
\* request handled fewer than 1800 seconds after t is not answered 404, one
\* handled more than 1800 seconds after t does not find the entry, and a
\* request that does not find the entry is answered 404 at once; every other
\* answer to a download request (200 or 502) ends a handler that had found the
\* entry.  A request is handled when its handler reads the clock for the sweep.
C6_TokenLifetime ==
    [][/\ \A k \in DOMAIN registered' :
             (now' - registered'[k] < DOWNLOAD_TTL_SECONDS) =>
                 /\ k \in DOMAIN DOWNLOAD_CACHE'
                 /\ DOWNLOAD_CACHE'[k].created_at = registered'[k]
       /\ \A k \in DOMAIN registered :
             /\ Rejected(k) => Age(k, now) >= DOWNLOAD_TTL_SECONDS
             /\ Accepted(k) => Age(k, now) <= DOWNLOAD_TTL_SECONDS
             /\ (Age(k, now) < DOWNLOAD_TTL_SECONDS /\ Served(k)) => k \in DOMAIN DOWNLOAD_CACHE'
       /\ response'.op = "download" =>
             /\ response'.status \in {200, 404, 502}
             /\ response'.status # 404 =>
                   response'.token \in DOMAIN registered /\ Served(response'.token)
       /\ \A h \in BagToSet(inflight') :
             h.op = "download" =>
                 /\ h.token \in DOMAIN registered'
                 /\ h.entry[1].created_at = registered'[h.token]
    ]_vars

\* a download that found the entry is still suspended in its GET, while a
\* later download of the same token, handled more than 1800 seconds after the
\* token's creation, has just been answered 404
C6_Witness ==
    /\ response.op = "download" /\ response.status = 404
    /\ response.token \in DOMAIN registered
    /\ Age(response.token, now) > DOWNLOAD_TTL_SECONDS
    /\ response.token \notin DOMAIN DOWNLOAD_CACHE
    /\ \E h \in Suspended("download") : h.token = response.token

\* ------------------------------------------------------------------- C7
EuropePmcUrlOf(r) ==
    IF IsSome(r.europe_pmc_match) /\ IsSome(r.europe_pmc_match[1].pdf_url)
    THEN <<r.europe_pmc_match[1].pdf_url[1]>> ELSE <<>>
CrossrefLinksOf(r) ==
    IF IsSome(r.crossref_match) THEN r.crossref_match[1].pdf_links ELSE <<>>
PrimaryUrlsOf(r) ==
    IF r.match[1].source = "crossref" THEN CrossrefLinksOf(r) ELSE EuropePmcUrlOf(r)
\* the URL the open-access resolver gave this call
ResolverUrl == IF IsSome(d_frame.unpaywall_url) THEN <<d_frame.unpaywall_url[1]>> ELSE <<>>

\* what dedupe_urls keeps of a list of URLs that all parse
UrlsKept(list) == dedupe_urls(list).value

\* C7 as stated: the candidate URLs start with the URLs of the primary match,
\* so candidate_urls[0] is a URL of the primary match whenever that match
\* supplied an http(s) URL.
C7_PrimarySourceFirst ==
    (/\ DiscoverDone
     /\ IsSome(DiscoverResult.match)
     /\ UrlsKept(PrimaryUrlsOf(DiscoverResult)) # <<>>) =>
        DiscoverResult.candidate_urls[1] =
            UrlsKept(PrimaryUrlsOf(DiscoverResult))[1]

\* C7 amended: the candidate URLs are collected in the fixed order Europe PMC
\* PDF URL, Crossref PDF links, resolver URL, whichever match is primary, and
\* then filtered and deduplicated.  So the list starts with what is kept of the
\* two matches' URLs, Europe PMC's first; the resolver's URL follows as the last
\* entry when it is kept and not among them, and nothing else follows;
\* candidate_urls[0] is the Europe PMC URL whenever the Europe PMC match
\* supplied an http(s) one, and a Crossref link only when it did not.
C7_FixedSourceOrder ==
    DiscoverDone =>
        LET r == DiscoverResult
            fromMatches == UrlsKept(EuropePmcUrlOf(r) \o CrossrefLinksOf(r))
            fromResolver == UrlsKept(ResolverUrl)
        IN  /\ Len(fromMatches) <= Len(r.candidate_urls)
            /\ SubSeq(r.candidate_urls, 1, Len(fromMatches)) = fromMatches
            /\ IF fromResolver # <<>> /\ fromResolver[1] \notin Range(fromMatches)
               THEN /\ Len(r.candidate_urls) = Len(fromMatches) + 1
                    /\ r.candidate_urls[Len(r.candidate_urls)] = fromResolver[1]
               ELSE Len(r.candidate_urls) = Len(fromMatches)
            /\ UrlsKept(EuropePmcUrlOf(r)) # <<>> =>
                  r.candidate_urls[1] = UrlsKept(EuropePmcUrlOf(r))[1]
            /\ (UrlsKept(EuropePmcUrlOf(r)) = <<>>
                    /\ UrlsKept(CrossrefLinksOf(r)) # <<>>) =>
                  r.candidate_urls[1] = UrlsKept(CrossrefLinksOf(r))[1]

\* Crossref is primary, the two matches and the resolver supply three different
\* URLs, and the list is Europe PMC's URL, the Crossref link, the resolver's URL
C7_Witness ==
    /\ DiscoverDone
    /\ IsSome(DiscoverResult.match)
    /\ DiscoverResult.match[1].source = "crossref"
    /\ UrlsKept(CrossrefLinksOf(DiscoverResult)) # <<>>
    /\ UrlsKept(EuropePmcUrlOf(DiscoverResult)) # <<>>
    /\ UrlsKept(ResolverUrl) # <<>>
    /\ DiscoverResult.candidate_urls =
          <<UrlsKept(EuropePmcUrlOf(DiscoverResult))[1],
            UrlsKept(CrossrefLinksOf(DiscoverResult))[1],
            UrlsKept(ResolverUrl)[1]>>
    /\ NoRepeats(DiscoverResult.candidate_urls)

\* ------------------------------------------------------------------- C8
\* C8 as stated: the score of every Match an adapter returns lies in [0, 1]
\* (scores are held in thousandths).
C8_ScoreInUnitInterval ==
    (apc = "done" /\ IsSome(match)) => match[1].score \in 0..1000

\* ------------------------------------------------------------------- C9
LastName == normalize_last_name(requested_last_name)
FamilyNames(item) ==
    [i \in 1..Len(item.author) |-> normalize_last_name(Family(item.author[i]))]
BaseScore(item) ==
    title_similarity(IF item.title = <<>> THEN <<>> ELSE item.title[1], requested_title)
NameHit(item) ==
    \E i \in 1..Len(FamilyNames(item)) :
       FamilyNames(item)[i] # <<>> /\ FamilyNames(item)[i] = LastName
FirstNameHit(item) ==
    /\ FamilyNames(item) # <<>>
    /\ FamilyNames(item)[1] # <<>> /\ FamilyNames(item)[1] = LastName

\* C9 as stated: with a usable surname, a Crossref item whose author list is
\* present but holds no matching surname scores the title similarity minus 0.05.
C9_MismatchPenalised ==
    \A i \in 1..Len(scores) :
        (/\ source = "crossref" /\ LastName # <<>>
         /\ FamilyNames(items[i]) # <<>> /\ ~NameHit(items[i])) =>
            scores[i] = FloatSub(BaseScore(items[i]), Penalty05)

\* C9 amended: the Crossref scorer returns the title similarity alone when the
\* query has no usable surname; otherwise it adds 0.30 when the first listed
\* author's surname matches, 0.10 when only another listed author's surname
\* matches, subtracts 0.05 when the author list is absent or empty, and leaves
\* the title similarity unchanged when the list is present but no surname
\* matches.
C9_CrossrefScore ==
    \A i \in 1..Len(scores) :
        source = "crossref" =>
            LET item == items[i]
                base == BaseScore(item)
            IN  scores[i] =
                    IF LastName = <<>> THEN base
                    ELSE IF FamilyNames(item) = <<>> THEN FloatSub(base, Penalty05)
                    ELSE IF FirstNameHit(item) THEN FloatAdd(base, Bonus30)
                    ELSE IF NameHit(item) THEN FloatAdd(base, Bonus10)
                    ELSE base

\* an item with listed authors, none matching the usable surname, was scored
C9_Witness ==
    /\ source = "crossref" /\ LastName # <<>>
    /\ \E i \in 1..Len(scores) :
          /\ FamilyNames(items[i]) # <<>> /\ ~NameHit(items[i])
          /\ scores[i] = BaseScore(items[i])
          /\ FloatLess(FloatZero, BaseScore(items[i]))
    /\ \E i \in 1..Len(scores) :
          ~FirstNameHit(items[i]) /\ NameHit(items[i])

\* ------------------------------------------------------------------ C10
\* entry k of the cache was older than the TTL at time t
Stale(cache, k, t) == t - cache[k].created_at > DOWNLOAD_TTL_SECONDS

\* a download handler started in this step
DownloadStarted ==
    \/ response'.op = "download" /\ response'.status = 404
    \/ \E h \in BagToSet(inflight') :
          h.op = "download" /\ CopiesIn(h, inflight') > CopiesIn(h, inflight)

\* C10 as stated: after every lookup call, whatever its answer, and after
\* every download call the cache holds no entry that was older than 1800
\* seconds when the request was handled (for a lookup: when its handler went
\* on after discover_paper; for a download: when its handler started).
C10_PrunedOnEveryCall ==
    [][(response'.op = "lookup" \/ DownloadStarted) =>
          \A k \in DOMAIN DOWNLOAD_CACHE' : ~Stale(DOWNLOAD_CACHE', k, now)
    ]_vars

\* C10 amended: the sweep runs at the start of every download call and in
\* every lookup call that registers a download token, and in no other lookup
\* call: right after it the cache holds no entry that was older than 1800
\* seconds at the sweep's reading of the clock (the token a lookup registers is
\* stamped with a later reading, so an entry exactly 1800 seconds old at the
\* sweep stays beside it); a lookup answered 404, or 200 without candidate
\* URLs, leaves the cache as it was.
C10_PrunedOnRegisterAndDownload ==
    [][/\ DownloadStarted => swept' = Some(now)
       /\ (response'.op = "lookup" /\ response'.token # 0) => swept' = Some(now)
       /\ IsSome(swept') =>
             /\ \A k \in DOMAIN DOWNLOAD_CACHE' :
                   ~Stale(DOWNLOAD_CACHE', k, swept'[1])
             /\ \A k \in DOMAIN DOWNLOAD_CACHE :
                   Stale(DOWNLOAD_CACHE, k, swept'[1]) <=> k \notin DOMAIN DOWNLOAD_CACHE'
       /\ (response'.op = "lookup" /\ response'.token = 0) =>
             swept' = None /\ DOWNLOAD_CACHE' = DOWNLOAD_CACHE
    ]_vars

\* a registering lookup swept out a token created more than a TTL earlier and
\* stamped its own token one second after the sweep read the clock
C10_Witness ==
    /\ response.op = "lookup" /\ response.token # 0
    /\ IsSome(swept)
    /\ \E k \in DOMAIN registered :
          /\ swept[1] - registered[k] > DOWNLOAD_TTL_SECONDS
          /\ k \notin DOMAIN DOWNLOAD_CACHE
    /\ response.token \in DOMAIN DOWNLOAD_CACHE
    /\ DOWNLOAD_CACHE[response.token].created_at = swept[1] + 1

====
